---- MODULE Spec2Model ----
(***************************************************************************)
(* A model of result.ts (@crvouga/result): the four-variant RemoteResult   *)
(* type, its guards, combinators, matchers and adapters.                   *)
(*                                                                         *)
(* JavaScript values are modelled as records [k, n, s]: k is the kind of   *)
(* the value, n its number (or the address of an object), s its string.    *)
(* Objects live in a heap (a sequence of objects, the address is the       *)
(* index), so that identity (===) and structural equality differ, and a    *)
(* returned reference can be told from a fresh copy.                       *)
(***************************************************************************)
EXTENDS Integers, Sequences, FiniteSets, TLC

\* The largest number the caller lets a payload grow to (x => x * 2 doubles).
MaxNum == 8

-----------------------------------------------------------------------------
(* JavaScript values *)

Undefined == [k |-> "undefined", n |-> 0, s |-> ""]
Null == [k |-> "null", n |-> 0, s |-> ""]
NaN == [k |-> "nan", n |-> 0, s |-> ""]
Bool(b) == [k |-> "boolean", n |-> IF b THEN 1 ELSE 0, s |-> ""]
Num(i) == [k |-> "number", n |-> i, s |-> ""]
Str(t) == [k |-> "string", n |-> 0, s |-> t]
Ref(a) == [k |-> "ref", n |-> a, s |-> ""]
\* new Error(message)
ErrorObj(msg) == [k |-> "error", n |-> 0, s |-> msg]

\* typeof value === 'object' && value !== null
IsObject(v) == v.k = "ref"

\* An object { type?, value?, error? }: has is the set of its own keys, and a
\* key it has not reads as undefined.
Obj(keys, t, v, e) == [has |-> keys, type |-> t, value |-> v, error |-> e]

\* 'key' in value, for a value that is an object
HasKey(h, v, key) == key \in h[v.n].has

\* value[key], for a value that is an object
Get(h, v, key) == h[v.n][key]

\* The outcome of a call: a returned value or a thrown one.
Ret(v) == [kind |-> "return", val |-> v]
Throw(v) == [kind |-> "throw", val |-> v]

\* What a call leaves behind: the heap after it, its outcome and the
\* caller-supplied functions it invoked, in order.
Res(h, out, calls) == [h |-> h, out |-> out, calls |-> calls]

\* A promise the call returns, by its state: Promise.resolve(v),
\* Promise.reject(e), or one not settled yet.
Fulfilled(v) == [kind |-> "fulfilled", val |-> v]
Rejected(e) == [kind |-> "rejected", val |-> e]
Pending == [kind |-> "pending", val |-> Undefined]

Returned(r) == r.out.kind = "return"
Thrown(r) == r.out.kind = "throw"
IsTrue(r) == r.out = Ret(Bool(TRUE))

\* ToBoolean(v)
Truthy(v) ==
  CASE v.k \in {"undefined", "null", "nan"} -> FALSE
    [] v.k = "boolean" -> v.n = 1
    [] v.k = "number" -> v.n # 0
    [] v.k = "string" -> v.s # ""
    [] OTHER -> TRUE

\* x * 2 (ToNumber(x) * 2): a non-numeric string, undefined and an object
\* give NaN; null, false and the empty string count as 0, true as 1.
Times2(v) ==
  CASE v.k = "number" -> Num(2 * v.n)
    [] v.k = "boolean" -> Num(2 * v.n)
    [] v.k = "null" -> Num(0)
    [] v.k = "string" /\ v.s = "" -> Num(0)
    [] OTHER -> NaN

-----------------------------------------------------------------------------
(* Constructors *)

Alloc(h, o) == Res(Append(h, o), Ret(Ref(Len(h) + 1)), <<>>)

Ok(h, value) == Alloc(h, Obj({"type", "value"}, Str("ok"), value, Undefined))

Err(h, error) == Alloc(h, Obj({"type", "error"}, Str("err"), Undefined, error))

Loading(h) == Alloc(h, Obj({"type"}, Str("loading"), Undefined, Undefined))

NotAsked(h) == Alloc(h, Obj({"type"}, Str("not-asked"), Undefined, Undefined))

-----------------------------------------------------------------------------
(* Caller-supplied functions *)

\* A function value: a named function, the composition of two of them, a
\* closure over a value c, or a function given by its graph at one argument.
NoRes == [h |-> <<>>, out |-> Ret(Undefined), calls |-> <<>>]
Fn(name) == [name |-> name, f |-> "", g |-> "", c |-> Undefined, t |-> NoRes]
\* x => g(f(x))
Compose(f, g) == [Fn("compose") EXCEPT !.f = f, !.g = g]
\* () => c, () => { throw c }, () => Promise.resolve(c), ...
Thunk(name, c) == [Fn(name) EXCEPT !.c = c]
\* The function that, called with x, allocates, returns or throws as t does.
Tabulated(x, t) == [Fn("tabulated") EXCEPT !.c = x, !.t = t]
\* An optional parameter that was not passed.
NoFn == Fn("none")

\* The value thrown by a caller-supplied function that throws.
Boom == ErrorObj("boom")

\* The functions the callers of this model pass: the mappers, recovery
\* functions, handlers, validators and thunks of the tests and the
\* documentation.
ApplyNamed(h, fn, x) ==
  CASE fn.name = "identity" -> Res(h, Ret(x), <<>>)
    [] fn.name = "double" -> Res(h, Ret(Times2(x)), <<>>)
    [] fn.name = "throwBoom" -> Res(h, Throw(Boom), <<>>)
    [] fn.name = "Ok" -> Ok(h, x)
    [] fn.name = "Err" -> Err(h, x)
    [] fn.name = "okDouble" -> Ok(h, Times2(x))
    [] fn.name = "recover" ->
         IF x = Str("net") THEN Ok(h, Str("cached")) ELSE Err(h, x)
    [] fn.name = "constLoading" -> Res(h, Ret(Str("loading")), <<>>)
    [] fn.name = "constNotAsked" -> Res(h, Ret(Str("not-asked")), <<>>)
    [] fn.name = "isNumber" ->
         Res(h, Ret(Bool(x.k \in {"number", "nan"})), <<>>)
    [] fn.name = "never" -> Res(h, Ret(Bool(FALSE)), <<>>)
    [] fn.name = "returns" -> Res(h, Ret(fn.c), <<>>)
    [] fn.name = "throws" -> Res(h, Throw(fn.c), <<>>)
    [] fn.name = "resolves" -> Res(h, Fulfilled(fn.c), <<>>)
    [] fn.name = "rejects" -> Res(h, Rejected(fn.c), <<>>)
    [] fn.name = "settlesLater" -> Res(h, Pending, <<>>)
    [] fn.name = "hangs" -> Res(h, Pending, <<>>)
    [] fn.name = "tabulated" /\ x = fn.c -> Res(fn.t.h, fn.t.out, <<>>)
    [] fn.name = "toPromise" -> Res(fn.t.h, fn.t.out, <<>>)
    [] OTHER -> Res(h, Throw(ErrorObj("not a function")), <<>>)

\* The first argument of a call, undefined when the call passes none.
Arg1(args) == IF Len(args) = 0 THEN Undefined ELSE args[1]

\* fn(...args): the call is logged under the slot (parameter or handler name)
\* the library invoked.
Invoke(h, slot, fn, args) ==
  LET x == Arg1(args)
      entry == <<[slot |-> slot, fn |-> fn.name, args |-> args]>>
      r == IF fn.name = "compose"
           THEN LET a == ApplyNamed(h, Fn(fn.f), x)
                IN IF Thrown(a) THEN a
                   ELSE ApplyNamed(a.h, Fn(fn.g), a.out.val)
           ELSE ApplyNamed(h, fn, x)
  IN Res(r.h, r.out, entry)

\* return Ok(m) / return Err(m), where m is the outcome r of a call to a
\* caller-supplied function: when that call threw, the throw propagates.
WrapOk(r) ==
  IF Thrown(r) THEN r
  ELSE LET k == Ok(r.h, r.out.val) IN Res(k.h, k.out, r.calls)

WrapErr(r) ==
  IF Thrown(r) THEN r
  ELSE LET k == Err(r.h, r.out.val) IN Res(k.h, k.out, r.calls)

-----------------------------------------------------------------------------
(* Type guards *)

\* Mutant: isOk without the 'value' in value test.
isOk_noValueCheck(h, value, validator) ==
  IF IsObject(value) /\ HasKey(h, value, "type")
     /\ Get(h, value, "type") = Str("ok")
  THEN IF validator # NoFn
       THEN Invoke(h, "validator", validator, <<Get(h, value, "value")>>)
       ELSE Res(h, Ret(Bool(TRUE)), <<>>)
  ELSE Res(h, Ret(Bool(FALSE)), <<>>)

\* Mutant: isOk that rejects a record carrying an error field as well.
isOk_exact(h, value, validator) ==
  IF IsObject(value) /\ HasKey(h, value, "type")
     /\ Get(h, value, "type") = Str("ok") /\ HasKey(h, value, "value")
     /\ ~HasKey(h, value, "error")
  THEN IF validator # NoFn
       THEN Invoke(h, "validator", validator, <<Get(h, value, "value")>>)
       ELSE Res(h, Ret(Bool(TRUE)), <<>>)
  ELSE Res(h, Ret(Bool(FALSE)), <<>>)

isOk(h, value, validator) ==
  IF IsObject(value) /\ HasKey(h, value, "type")
     /\ Get(h, value, "type") = Str("ok") /\ HasKey(h, value, "value")
  THEN IF validator # NoFn
       THEN Invoke(h, "validator", validator, <<Get(h, value, "value")>>)
       ELSE Res(h, Ret(Bool(TRUE)), <<>>)
  ELSE Res(h, Ret(Bool(FALSE)), <<>>)

\* Mutant: isErr that does not consult its validator.
isErr_noValidator(h, value, validator) ==
  Res(h, Ret(Bool(IsObject(value) /\ HasKey(h, value, "type")
                  /\ Get(h, value, "type") = Str("err")
                  /\ HasKey(h, value, "error"))), <<>>)

isErr(h, value, validator) ==
  IF IsObject(value) /\ HasKey(h, value, "type")
     /\ Get(h, value, "type") = Str("err") /\ HasKey(h, value, "error")
  THEN IF validator # NoFn
       THEN Invoke(h, "validator", validator, <<Get(h, value, "error")>>)
       ELSE Res(h, Ret(Bool(TRUE)), <<>>)
  ELSE Res(h, Ret(Bool(FALSE)), <<>>)

\* Mutant: isLoading without the comparison of the tag.
isLoading_anyTag(h, value) ==
  Res(h, Ret(Bool(IsObject(value) /\ HasKey(h, value, "type"))), <<>>)

isLoading(h, value) ==
  Res(h, Ret(Bool(IsObject(value) /\ HasKey(h, value, "type")
                  /\ Get(h, value, "type") = Str("loading"))), <<>>)

isNotAsked(h, value) ==
  Res(h, Ret(Bool(IsObject(value) /\ HasKey(h, value, "type")
                  /\ Get(h, value, "type") = Str("not-asked"))), <<>>)

\* The guards as the library itself calls them: no validator, used as a
\* condition.
ok(h, v) == IsTrue(isOk(h, v, NoFn))
err(h, v) == IsTrue(isErr(h, v, NoFn))
loading(h, v) == IsTrue(isLoading(h, v))
notAsked(h, v) == IsTrue(isNotAsked(h, v))

\* Mutant: isResult that puts the value validator to Err inputs as well.
isResult_valueValidatorOnErr(h, value, valueValidator, errorValidator) ==
  IF ~ok(h, value) /\ ~err(h, value) THEN Res(h, Ret(Bool(FALSE)), <<>>)
  ELSE IF valueValidator # NoFn
  THEN Invoke(h, "valueValidator", valueValidator, <<Get(h, value, "value")>>)
  ELSE IF err(h, value) /\ errorValidator # NoFn
  THEN Invoke(h, "errorValidator", errorValidator, <<Get(h, value, "error")>>)
  ELSE Res(h, Ret(Bool(TRUE)), <<>>)

isResult(h, value, valueValidator, errorValidator) ==
  IF ~ok(h, value) /\ ~err(h, value) THEN Res(h, Ret(Bool(FALSE)), <<>>)
  ELSE IF ok(h, value) /\ valueValidator # NoFn
  THEN Invoke(h, "valueValidator", valueValidator, <<Get(h, value, "value")>>)
  ELSE IF err(h, value) /\ errorValidator # NoFn
  THEN Invoke(h, "errorValidator", errorValidator, <<Get(h, value, "error")>>)
  ELSE Res(h, Ret(Bool(TRUE)), <<>>)

\* Mutant: isRemoteResult without the isNotAsked test.
isRemoteResult_noNotAsked(h, value, valueValidator, errorValidator) ==
  IF loading(h, value)
  THEN Res(h, Ret(Bool(TRUE)), <<>>)
  ELSE isResult(h, value, valueValidator, errorValidator)

isRemoteResult(h, value, valueValidator, errorValidator) ==
  IF loading(h, value) \/ notAsked(h, value)
  THEN Res(h, Ret(Bool(TRUE)), <<>>)
  ELSE isResult(h, value, valueValidator, errorValidator)

isRemoteSuccess(h, value, validator) == isOk(h, value, validator)

isRemoteFailure(h, value, validator) == isErr(h, value, validator)

-----------------------------------------------------------------------------
(* Transformations *)

\* Mutant: mapOk that returns the mapper's result without wrapping it.
mapOk_noWrap(h, result, mapper) ==
  IF ok(h, result)
  THEN Invoke(h, "mapper", mapper, <<Get(h, result, "value")>>)
  ELSE Res(h, Ret(result), <<>>)

\* Mutant: mapOk that stores the mapped value in the instance it was given.
mapOk_inPlace(h, result, mapper) ==
  IF ok(h, result)
  THEN LET r == Invoke(h, "mapper", mapper, <<Get(h, result, "value")>>)
       IN IF Thrown(r) THEN r
          ELSE Res([r.h EXCEPT ![result.n].value = r.out.val], Ret(result),
                   r.calls)
  ELSE Res(h, Ret(result), <<>>)

mapOk(h, result, mapper) ==
  IF ok(h, result)
  THEN WrapOk(Invoke(h, "mapper", mapper, <<Get(h, result, "value")>>))
  ELSE Res(h, Ret(result), <<>>)

\* Mutant: flatMapOk that wraps the mapper's result in Ok, as mapOk does.
flatMapOk_wrap(h, result, mapper) ==
  IF ok(h, result)
  THEN WrapOk(Invoke(h, "mapper", mapper, <<Get(h, result, "value")>>))
  ELSE Res(h, Ret(result), <<>>)

flatMapOk(h, result, mapper) ==
  IF ok(h, result)
  THEN Invoke(h, "mapper", mapper, <<Get(h, result, "value")>>)
  ELSE Res(h, Ret(result), <<>>)

\* Mutant: mapErr that returns a copy of an Ok input instead of the input.
mapErr_copy(h, result, mapper) ==
  IF err(h, result)
  THEN WrapErr(Invoke(h, "mapper", mapper, <<Get(h, result, "error")>>))
  ELSE IF ok(h, result) THEN Ok(h, Get(h, result, "value"))
  ELSE Res(h, Ret(result), <<>>)

mapErr(h, result, mapper) ==
  IF err(h, result)
  THEN WrapErr(Invoke(h, "mapper", mapper, <<Get(h, result, "error")>>))
  ELSE Res(h, Ret(result), <<>>)

\* Mutant: flatMapErr that wraps the mapper's result in Err, as mapErr does.
flatMapErr_wrap(h, result, mapper) ==
  IF err(h, result)
  THEN WrapErr(Invoke(h, "mapper", mapper, <<Get(h, result, "error")>>))
  ELSE Res(h, Ret(result), <<>>)

flatMapErr(h, result, mapper) ==
  IF err(h, result)
  THEN Invoke(h, "mapper", mapper, <<Get(h, result, "error")>>)
  ELSE Res(h, Ret(result), <<>>)

\* Mutant: mapRemote that, as the two-variant functions do, throws on what is
\* neither Ok nor Err.
mapRemote_resultOnly(h, result, mapper) ==
  IF ok(h, result)
  THEN WrapOk(Invoke(h, "mapper", mapper, <<Get(h, result, "value")>>))
  ELSE IF err(h, result) THEN Res(h, Ret(result), <<>>)
  ELSE Res(h, Throw(ErrorObj("Invalid result type")), <<>>)

mapRemote(h, result, mapper) ==
  IF ok(h, result)
  THEN WrapOk(Invoke(h, "mapper", mapper, <<Get(h, result, "value")>>))
  ELSE Res(h, Ret(result), <<>>)

\* Mutant: bimap that catches what a mapper throws and returns it as an Err.
bimap_catch(h, result, okMapper, errMapper) ==
  LET m == IF ok(h, result)
           THEN Invoke(h, "okMapper", okMapper, <<Get(h, result, "value")>>)
           ELSE Invoke(h, "errMapper", errMapper, <<Get(h, result, "error")>>)
  IN IF ~ok(h, result) /\ ~err(h, result)
     THEN Res(h, Throw(ErrorObj("Invalid result type")), <<>>)
     ELSE IF Thrown(m)
     THEN LET e == Err(m.h, m.out.val) IN Res(e.h, e.out, m.calls)
     ELSE IF ok(h, result) THEN WrapOk(m) ELSE WrapErr(m)

\* Mutant: bimap that maps the error of an Err with okMapper.
bimap_okMapperOnErr(h, result, okMapper, errMapper) ==
  IF ok(h, result)
  THEN WrapOk(Invoke(h, "okMapper", okMapper, <<Get(h, result, "value")>>))
  ELSE IF err(h, result)
  THEN WrapErr(Invoke(h, "okMapper", okMapper, <<Get(h, result, "error")>>))
  ELSE Res(h, Throw(ErrorObj("Invalid result type")), <<>>)

bimap(h, result, okMapper, errMapper) ==
  IF ok(h, result)
  THEN WrapOk(Invoke(h, "okMapper", okMapper, <<Get(h, result, "value")>>))
  ELSE IF err(h, result)
  THEN WrapErr(Invoke(h, "errMapper", errMapper, <<Get(h, result, "error")>>))
  ELSE Res(h, Throw(ErrorObj("Invalid result type")), <<>>)

\* Mutant: swap that leaves an Err as it is.
swap_keepsErr(h, result) ==
  IF ok(h, result) THEN Err(h, Get(h, result, "value"))
  ELSE Res(h, Ret(result), <<>>)

\* Mutant: swap that copies the fields of its input into the new instance,
\* { ...result, type: 'err', error: result.value }.
swap_spread(h, result) ==
  IF ok(h, result)
  THEN Alloc(h, [h[result.n] EXCEPT !.has = @ \cup {"error"},
                                    !.type = Str("err"),
                                    !.error = Get(h, result, "value")])
  ELSE IF err(h, result)
  THEN Alloc(h, [h[result.n] EXCEPT !.has = @ \cup {"value"},
                                    !.type = Str("ok"),
                                    !.value = Get(h, result, "error")])
  ELSE Res(h, Ret(result), <<>>)

swap(h, result) ==
  IF ok(h, result) THEN Err(h, Get(h, result, "value"))
  ELSE IF err(h, result) THEN Ok(h, Get(h, result, "error"))
  ELSE Res(h, Ret(result), <<>>)

-----------------------------------------------------------------------------
(* Conversions from plain values *)

\* Mutant: fromNullable that tests value !== null.
fromNullable_strictNull(h, value, error) ==
  IF value.k # "null" THEN Ok(h, value) ELSE Err(h, error)

\* value != null holds of everything but null and undefined.
fromNullable(h, value, error) ==
  IF value.k \notin {"null", "undefined"} THEN Ok(h, value) ELSE Err(h, error)

\* Mutant: fromUndefined that tests value != undefined.
fromUndefined_loose(h, value, error) ==
  IF value.k \notin {"null", "undefined"} THEN Ok(h, value) ELSE Err(h, error)

fromUndefined(h, value, error) ==
  IF value.k # "undefined" THEN Ok(h, value) ELSE Err(h, error)

fromNullish(h, value, error) ==
  IF value.k \in {"null", "undefined"} THEN Err(h, error) ELSE Ok(h, value)

\* Mutant: fromFalsy that rejects null and undefined only.
fromFalsy_nullish(h, value, error) ==
  IF value.k \in {"null", "undefined"} THEN Err(h, error) ELSE Ok(h, value)

fromFalsy(h, value, error) ==
  IF Truthy(value) THEN Ok(h, value) ELSE Err(h, error)

-----------------------------------------------------------------------------
(* Extraction *)

NonOk == ErrorObj("Tried to unwrap a non-ok result")

\* Mutant: unwrap that throws the error an Err carries.
unwrap_throwsPayload(h, result) ==
  IF ok(h, result) THEN Res(h, Ret(Get(h, result, "value")), <<>>)
  ELSE IF err(h, result) THEN Res(h, Throw(Get(h, result, "error")), <<>>)
  ELSE Res(h, Throw(NonOk), <<>>)

unwrap(h, result) ==
  IF ok(h, result) THEN Res(h, Ret(Get(h, result, "value")), <<>>)
  ELSE Res(h, Throw(NonOk), <<>>)

\* Mutant: unwrapOr that has a default for Err only.
unwrapOr_errOnly(h, result, defaultValue) ==
  IF ok(h, result) THEN Res(h, Ret(Get(h, result, "value")), <<>>)
  ELSE IF err(h, result) THEN Res(h, Ret(defaultValue), <<>>)
  ELSE Res(h, Throw(NonOk), <<>>)

unwrapOr(h, result, defaultValue) ==
  IF ok(h, result) THEN Res(h, Ret(Get(h, result, "value")), <<>>)
  ELSE Res(h, Ret(defaultValue), <<>>)

getOrElse(h, result, defaultValue) == unwrapOr(h, result, defaultValue)

-----------------------------------------------------------------------------
(* Equality *)

\* x === y: NaN is not equal to itself, an object only to itself.
StrictEquals(x, y) == x = y /\ x.k # "nan"

\* JSON.stringify of a value that is no object: undefined has no text, NaN
\* is written as null.
Json0(v) ==
  CASE v.k = "undefined" -> [t |-> "undefined", n |-> 0, s |-> ""]
    [] v.k \in {"null", "nan"} -> [t |-> "null", n |-> 0, s |-> ""]
    [] v.k \in {"ref", "error"} -> [t |-> "object", n |-> 0, s |-> ""]
    [] OTHER -> [t |-> v.k, n |-> v.n, s |-> v.s]

\* JSON.stringify(v): of an object, its own keys whose value has a text.
Json(h, v) ==
  IF v.k = "ref"
  THEN [t |-> "object",
        f |-> [key \in {"type", "value", "error"} |->
                 IF key \in h[v.n].has /\ h[v.n][key].k # "undefined"
                 THEN Json0(h[v.n][key])
                 ELSE Json0(Undefined)]]
  ELSE [t |-> "value", f |-> [key \in {"type", "value", "error"} |-> Json0(v)]]

\* The comparators callers pass to equals.
Compare(h, fn, x, y) ==
  CASE fn.name = "deepEquals" -> Res(h, Ret(Bool(Json(h, x) = Json(h, y))), <<>>)
    [] fn.name = "customEquals" -> Res(h, Ret(Bool(StrictEquals(x, y))), <<>>)
    [] OTHER -> Res(h, Throw(ErrorObj("not a function")), <<>>)

\* valueEquals(x, y)
Invoke2(h, slot, fn, x, y) ==
  LET r == Compare(h, fn, x, y)
  IN Res(r.h, r.out,
         <<[slot |-> slot, fn |-> fn.name, args |-> <<x, y>>]>>)

\* Mutant: equals without the isRemoteResult test of its arguments.
equals_unguarded(h, a, b, valueEquals) ==
  LET ta == IF IsObject(a) THEN Get(h, a, "type") ELSE Undefined
      tb == IF IsObject(b) THEN Get(h, b, "type") ELSE Undefined
  IN IF ta # tb THEN Res(h, Ret(Bool(FALSE)), <<>>)
     ELSE IF ok(h, a) /\ ok(h, b)
     THEN IF valueEquals # NoFn
          THEN Invoke2(h, "valueEquals", valueEquals,
                       Get(h, a, "value"), Get(h, b, "value"))
          ELSE Res(h, Ret(Bool(StrictEquals(Get(h, a, "value"),
                                            Get(h, b, "value")))), <<>>)
     ELSE IF err(h, a) /\ err(h, b)
     THEN IF valueEquals # NoFn
          THEN Invoke2(h, "valueEquals", valueEquals,
                       Get(h, a, "error"), Get(h, b, "error"))
          ELSE Res(h, Ret(Bool(StrictEquals(Get(h, a, "error"),
                                            Get(h, b, "error")))), <<>>)
     ELSE Res(h, Ret(Bool(TRUE)), <<>>)

\* Mutant: equals that compares the payloads by their JSON text, whatever
\* comparator it is given.
equals_byText(h, a, b, valueEquals) ==
  IF \/ ~IsTrue(isRemoteResult(h, a, NoFn, NoFn))
     \/ ~IsTrue(isRemoteResult(h, b, NoFn, NoFn))
  THEN Res(h, Ret(Bool(FALSE)), <<>>)
  ELSE IF Get(h, a, "type") # Get(h, b, "type")
  THEN Res(h, Ret(Bool(FALSE)), <<>>)
  ELSE Res(h, Ret(Bool(/\ Json(h, Get(h, a, "value")) = Json(h, Get(h, b, "value"))
                       /\ Json(h, Get(h, a, "error")) = Json(h, Get(h, b, "error")))),
           <<>>)

equals(h, a, b, valueEquals) ==
  IF \/ ~IsTrue(isRemoteResult(h, a, NoFn, NoFn))
     \/ ~IsTrue(isRemoteResult(h, b, NoFn, NoFn))
  THEN Res(h, Ret(Bool(FALSE)), <<>>)
  ELSE IF Get(h, a, "type") # Get(h, b, "type")
  THEN Res(h, Ret(Bool(FALSE)), <<>>)
  ELSE IF ok(h, a) /\ ok(h, b)
  THEN IF valueEquals # NoFn
       THEN Invoke2(h, "valueEquals", valueEquals,
                    Get(h, a, "value"), Get(h, b, "value"))
       ELSE Res(h, Ret(Bool(StrictEquals(Get(h, a, "value"),
                                         Get(h, b, "value")))), <<>>)
  ELSE IF err(h, a) /\ err(h, b)
  THEN IF valueEquals # NoFn
       THEN Invoke2(h, "valueEquals", valueEquals,
                    Get(h, a, "error"), Get(h, b, "error"))
       ELSE Res(h, Ret(Bool(StrictEquals(Get(h, a, "error"),
                                         Get(h, b, "error")))), <<>>)
  ELSE Res(h, Ret(Bool(TRUE)), <<>>)

-----------------------------------------------------------------------------
(* Pattern matching *)

\* Mutant: match that takes whatever is neither Ok nor Err for Loading.
match_noLoadingTest(h, result, matchers) ==
  IF ok(h, result)
  THEN Invoke(h, "ok", matchers.ok, <<Get(h, result, "value")>>)
  ELSE IF err(h, result)
  THEN Invoke(h, "err", matchers.err, <<Get(h, result, "error")>>)
  ELSE Invoke(h, "loading", matchers.loading, <<>>)

match(h, result, matchers) ==
  IF ok(h, result)
  THEN Invoke(h, "ok", matchers.ok, <<Get(h, result, "value")>>)
  ELSE IF err(h, result)
  THEN Invoke(h, "err", matchers.err, <<Get(h, result, "error")>>)
  ELSE IF loading(h, result) THEN Invoke(h, "loading", matchers.loading, <<>>)
  ELSE IF notAsked(h, result) THEN Invoke(h, "notAsked", matchers.notAsked, <<>>)
  ELSE Res(h, Throw(ErrorObj("Invalid result type")), <<>>)

\* Mutant: fold that takes whatever is not Ok for an Err.
fold_noErrTest(h, result, onOk, onErr) ==
  IF ok(h, result)
  THEN Invoke(h, "onOk", onOk, <<Get(h, result, "value")>>)
  ELSE Invoke(h, "onErr", onErr, <<Get(h, result, "error")>>)

fold(h, result, onOk, onErr) ==
  IF ok(h, result)
  THEN Invoke(h, "onOk", onOk, <<Get(h, result, "value")>>)
  ELSE IF err(h, result)
  THEN Invoke(h, "onErr", onErr, <<Get(h, result, "error")>>)
  ELSE Res(h, Throw(ErrorObj("Invalid result type")), <<>>)

foldRemote(h, result, matchers) ==
  IF ok(h, result)
  THEN Invoke(h, "success", matchers.success, <<Get(h, result, "value")>>)
  ELSE IF err(h, result)
  THEN Invoke(h, "failure", matchers.failure, <<Get(h, result, "error")>>)
  ELSE IF loading(h, result) THEN Invoke(h, "loading", matchers.loading, <<>>)
  ELSE IF notAsked(h, result) THEN Invoke(h, "notAsked", matchers.notAsked, <<>>)
  ELSE Res(h, Throw(ErrorObj("Invalid result type")), <<>>)

-----------------------------------------------------------------------------
(* Adapters *)

\* Mutant: toPromise that reports Loading and NotAsked by a rejected promise.
toPromise_rejectsMisuse(h, result) ==
  IF ok(h, result) THEN Res(h, Fulfilled(Get(h, result, "value")), <<>>)
  ELSE IF err(h, result) THEN Res(h, Rejected(Get(h, result, "error")), <<>>)
  ELSE Res(h, Rejected(ErrorObj("Cannot convert Loading or NotAsked to Promise")),
           <<>>)

\* Mutant: toPromise that rejects with a new Error made from the error.
toPromise_newError(h, result) ==
  IF ok(h, result) THEN Res(h, Fulfilled(Get(h, result, "value")), <<>>)
  ELSE IF err(h, result) THEN Res(h, Rejected(ErrorObj("rejected")), <<>>)
  ELSE Res(h, Throw(ErrorObj("Cannot convert Loading or NotAsked to Promise")),
           <<>>)

toPromise(h, result) ==
  IF ok(h, result) THEN Res(h, Fulfilled(Get(h, result, "value")), <<>>)
  ELSE IF err(h, result) THEN Res(h, Rejected(Get(h, result, "error")), <<>>)
  ELSE Res(h, Throw(ErrorObj("Cannot convert Loading or NotAsked to Promise")),
           <<>>)

tryCatchSync(h, fn) ==
  LET r == Invoke(h, "fn", fn, <<>>)
  IN IF Thrown(r)
     THEN LET e == Err(r.h, r.out.val) IN Res(e.h, e.out, r.calls)
     ELSE LET k == Ok(r.h, r.out.val) IN Res(k.h, k.out, r.calls)

\* The thunk named name that closes over c; the thunk () => toPromise(c)
\* calls back into the library, and is given by what that call does on h.
ThunkOf(h, name, c) ==
  IF name = "toPromise"
  THEN [Thunk(name, c) EXCEPT !.t = toPromise(h, c)]
  ELSE Thunk(name, c)

\* Mutant: an await that gives up on a promise that is still pending.
Awaited_timeout(out) ==
  IF out.kind = "return" THEN Fulfilled(out.val)
  ELSE IF out.kind = "pending" THEN Rejected(ErrorObj("timeout"))
  ELSE out

\* await x: a value that is no promise is awaited as a fulfilled one.
Awaited(out) == IF out.kind = "return" THEN Fulfilled(out.val) ELSE out

\* tryCatch up to its await: fn() runs synchronously inside the try block. A
\* synchronous throw is caught at once and the returned promise is fulfilled
\* with the Err; otherwise the call returns a pending promise.
tryCatch(h, fn) ==
  LET r == Invoke(h, "fn", fn, <<>>)
  IN IF Thrown(r)
     THEN LET e == Err(r.h, r.out.val) IN Res(e.h, Fulfilled(e.out.val), r.calls)
     ELSE Res(r.h, Pending, r.calls)

\* tryCatch from its await on: the awaited promise p has settled.
\* Mutant: tryCatch whose await is outside the try block, so that a
\* rejection rejects the returned promise.
tryCatchResume_uncaught(h, p) ==
  IF p.kind = "fulfilled"
  THEN LET o == Ok(h, p.val) IN Res(o.h, Fulfilled(o.out.val), <<>>)
  ELSE Res(h, Rejected(p.val), <<>>)

tryCatchResume(h, p) ==
  IF p.kind = "fulfilled"
  THEN LET o == Ok(h, p.val) IN Res(o.h, Fulfilled(o.out.val), <<>>)
  ELSE LET e == Err(h, p.val) IN Res(e.h, Fulfilled(e.out.val), <<>>)

-----------------------------------------------------------------------------
(* The program: a caller that builds values and calls the library on them, *)
(* one operation at a time. It keeps the arguments of the call it makes    *)
(* and the result, and drops the values of earlier calls.                  *)

VARIABLES
  heap,   \* the objects that exist, by address
  pre,    \* the heap as it was when the last call started
  op,     \* the last operation called
  args,   \* its value arguments (for a thunk: the value it closes over)
  fn,     \* the function (or handler set) passed to it, by name
  fn2,    \* the second function passed to it, by name
  out,    \* its outcome: a returned value, a thrown one, or a promise
  calls,  \* the caller-supplied functions it invoked, in order
  task    \* the suspended tryCatch, if any, and the promise it awaits

vars == <<heap, pre, op, args, fn, fn2, out, calls, task>>

\* Objects that were not built by the constructors (say, deserialized input):
\* {}, { type: 'invalid' }, { type: 'ok' }, { type: 'err' },
\* { type: 'loading', value: 1 }, { type: 'ok', value: 1, error: 'net' } and
\* a second {}.
InitialHeap ==
  << Obj({}, Undefined, Undefined, Undefined),
     Obj({"type"}, Str("invalid"), Undefined, Undefined),
     Obj({"type"}, Str("ok"), Undefined, Undefined),
     Obj({"type"}, Str("err"), Undefined, Undefined),
     Obj({"type", "value"}, Str("loading"), Num(1), Undefined),
     Obj({"type", "value", "error"}, Str("ok"), Num(1), Str("net")),
     Obj({}, Undefined, Undefined, Undefined) >>

IsConstructed(v) == v.k = "ref" /\ v.n > Len(InitialHeap)
Refs(h) == {Ref(a) : a \in 1..Len(h)}

\* The caller keeps the argument v of the call it is about to make and drops
\* every other value it built: the heap the call starts from, and v in it.
Retain(h, v) ==
  IF IsConstructed(v)
  THEN [h |-> Append(InitialHeap, h[v.n]), v |-> Ref(Len(InitialHeap) + 1)]
  ELSE [h |-> InitialHeap, v |-> v]

\* The payloads the caller wraps, and the values it passes to the library.
Payloads == {Num(1), Str("net"), Undefined, NaN, Ref(1)}
Inputs(h) == {Undefined, Null, Num(1), Str("ok")} \cup Refs(h)

MapperNames == {"identity", "double", "throwBoom"}
BindNames == {"Ok", "Err", "okDouble", "recover", "throwBoom"}
ValidatorNames == {"none", "isNumber", "never", "identity"}
HandlerSets == {"handlers", "throwing"}
SyncThunks == {"returns", "throws"}
AsyncThunks ==
  {"returns", "throws", "resolves", "rejects", "settlesLater", "hangs",
   "toPromise"}

\* The handlers passed to match, fold and foldRemote.
Handlers(set) ==
  IF set = "handlers"
  THEN [ok |-> Fn("identity"), err |-> Fn("identity"),
        loading |-> Fn("constLoading"), notAsked |-> Fn("constNotAsked")]
  ELSE [ok |-> Fn("throwBoom"), err |-> Fn("throwBoom"),
        loading |-> Fn("throwBoom"), notAsked |-> Fn("throwBoom")]

RemoteHandlers(set) ==
  [success |-> Handlers(set).ok, failure |-> Handlers(set).err,
   loading |-> Handlers(set).loading, notAsked |-> Handlers(set).notAsked]

ComparatorNames == {"none", "deepEquals", "customEquals"}

\* The second argument of a call with two values: the first one again, a
\* value that is no instance, or an instance built for the call.
SecondArgs ==
  [kind : {"same", "Loading", "NotAsked"}, v : {Undefined}]
    \cup [kind : {"input"}, v : Inputs(InitialHeap)]
    \cup [kind : {"Ok", "Err"}, v : Payloads \cup {Ref(Len(InitialHeap))}]

Second(h, a, w) ==
  CASE w.kind = "same" -> Res(h, Ret(a), <<>>)
    [] w.kind = "input" -> Res(h, Ret(w.v), <<>>)
    [] w.kind = "Ok" -> Ok(h, w.v)
    [] w.kind = "Err" -> Err(h, w.v)
    [] w.kind = "Loading" -> Loading(h)
    [] OTHER -> NotAsked(h)

\* The values callers wrap that are no instance built here: an instance
\* inside an instance is outside the window this model keeps.
Unbuilt == Inputs(InitialHeap)

\* The plain values callers convert: those, and the falsy ones.
PlainValues == Unbuilt \cup {NaN, Num(0), Str(""), Bool(FALSE), Bool(TRUE)}

\* The value a thunk closes over: for () => toPromise(r) an object r, built
\* or not; for the others a value it returns, throws or settles with.
ThunkValues(h, f) == IF f = "toPromise" THEN Refs(h) ELSE Unbuilt

\* The errors they give for a missing value.
MissingErrors == {Str("net"), Null}

\* The defaults given to unwrapOr and getOrElse.
Defaults == {Num(0), Str("net"), Undefined}

IdleTask == [st |-> "idle", p |-> Pending]

\* No payload on the heap is a number above MaxNum.
NumsWithin(h) ==
  \A a \in 1..Len(h) : \A key \in {"value", "error"} :
    h[a][key].k = "number" => h[a][key].n <= MaxNum

Init ==
  /\ heap = InitialHeap
  /\ pre = InitialHeap
  /\ op = "init"
  /\ args = <<>>
  /\ fn = "none"
  /\ fn2 = "none"
  /\ out = Ret(Undefined)
  /\ calls = <<>>
  /\ task = IdleTask

\* One synchronous call o(a..., f, f2), started on heap h0, with result r.
Step(o, a, f, f2, h0, r) ==
  /\ task.st # "awaiting"
  /\ NumsWithin(r.h)
  /\ op' = o
  /\ args' = a
  /\ fn' = f
  /\ fn2' = f2
  /\ pre' = h0
  /\ heap' = r.h
  /\ out' = r.out
  /\ calls' = r.calls
  /\ task' = IdleTask

Call_Ok ==
  \E v \in Payloads :
    LET h0 == InitialHeap
    IN Step("Ok", <<v>>, "none", "none", h0, Ok(h0, v))

Call_Err ==
  \E v \in Payloads :
    LET h0 == InitialHeap
    IN Step("Err", <<v>>, "none", "none", h0, Err(h0, v))

Call_Loading ==
  LET h0 == InitialHeap
  IN Step("Loading", <<>>, "none", "none", h0, Loading(h0))

Call_NotAsked ==
  LET h0 == InitialHeap
  IN Step("NotAsked", <<>>, "none", "none", h0, NotAsked(h0))

Call_isOk ==
  \E v \in Inputs(heap), p \in ValidatorNames :
    LET c == Retain(heap, v)
    IN Step("isOk", <<c.v>>, p, "none", c.h,
            isOk(c.h, c.v, Fn(p)))

Call_isErr ==
  \E v \in Inputs(heap), p \in ValidatorNames :
    LET c == Retain(heap, v)
    IN Step("isErr", <<c.v>>, p, "none", c.h,
            isErr(c.h, c.v, Fn(p)))

Call_isLoading ==
  \E v \in Inputs(heap) :
    LET c == Retain(heap, v)
    IN Step("isLoading", <<c.v>>, "none", "none", c.h, isLoading(c.h, c.v))

Call_isNotAsked ==
  \E v \in Inputs(heap) :
    LET c == Retain(heap, v)
    IN Step("isNotAsked", <<c.v>>, "none", "none", c.h, isNotAsked(c.h, c.v))

Call_isResult ==
  \E v \in Inputs(heap), p \in ValidatorNames, q \in ValidatorNames :
    LET c == Retain(heap, v)
    IN Step("isResult", <<c.v>>, p, q, c.h,
            isResult(c.h, c.v, Fn(p), Fn(q)))

Call_isRemoteResult ==
  \E v \in Inputs(heap), p \in ValidatorNames, q \in ValidatorNames :
    LET c == Retain(heap, v)
    IN Step("isRemoteResult", <<c.v>>, p, q, c.h,
            isRemoteResult(c.h, c.v, Fn(p), Fn(q)))

Call_isRemoteSuccess ==
  \E v \in Inputs(heap), p \in ValidatorNames :
    LET c == Retain(heap, v)
    IN Step("isRemoteSuccess", <<c.v>>, p, "none", c.h,
            isRemoteSuccess(c.h, c.v, Fn(p)))

Call_isRemoteFailure ==
  \E v \in Inputs(heap), p \in ValidatorNames :
    LET c == Retain(heap, v)
    IN Step("isRemoteFailure", <<c.v>>, p, "none", c.h,
            isRemoteFailure(c.h, c.v, Fn(p)))

Call_mapOk ==
  \E r \in Refs(heap), f \in MapperNames :
    LET c == Retain(heap, r)
    IN Step("mapOk", <<c.v>>, f, "none", c.h,
            mapOk(c.h, c.v, Fn(f)))

Call_mapErr ==
  \E r \in Refs(heap), f \in MapperNames :
    LET c == Retain(heap, r)
    IN Step("mapErr", <<c.v>>, f, "none", c.h,
            mapErr(c.h, c.v, Fn(f)))

Call_flatMapOk ==
  \E r \in Refs(heap), f \in BindNames :
    LET c == Retain(heap, r)
    IN Step("flatMapOk", <<c.v>>, f, "none", c.h,
            flatMapOk(c.h, c.v, Fn(f)))

Call_flatMapErr ==
  \E r \in Refs(heap), f \in BindNames :
    LET c == Retain(heap, r)
    IN Step("flatMapErr", <<c.v>>, f, "none", c.h,
            flatMapErr(c.h, c.v, Fn(f)))

Call_mapRemote ==
  \E r \in Refs(heap), f \in MapperNames :
    LET c == Retain(heap, r)
    IN Step("mapRemote", <<c.v>>, f, "none", c.h,
            mapRemote(c.h, c.v, Fn(f)))

Call_bimap ==
  \E r \in Refs(heap), f \in MapperNames, g \in MapperNames :
    LET c == Retain(heap, r)
    IN Step("bimap", <<c.v>>, f, g, c.h,
            bimap(c.h, c.v, Fn(f), Fn(g)))

Call_match ==
  \E r \in Refs(heap), m \in HandlerSets :
    LET c == Retain(heap, r)
    IN Step("match", <<c.v>>, m, "none", c.h,
            match(c.h, c.v, Handlers(m)))

Call_fold ==
  \E r \in Refs(heap), m \in HandlerSets :
    LET c == Retain(heap, r)
    IN Step("fold", <<c.v>>, m, "none", c.h,
            fold(c.h, c.v, Handlers(m).ok, Handlers(m).err))

Call_foldRemote ==
  \E r \in Refs(heap), m \in HandlerSets :
    LET c == Retain(heap, r)
    IN Step("foldRemote", <<c.v>>, m, "none", c.h,
            foldRemote(c.h, c.v, RemoteHandlers(m)))

Call_toPromise ==
  \E r \in Refs(heap) :
    LET c == Retain(heap, r)
    IN Step("toPromise", <<c.v>>, "none", "none", c.h, toPromise(c.h, c.v))

Call_tryCatchSync ==
  \E f \in SyncThunks : \E v \in ThunkValues(heap, f) :
    LET c == Retain(heap, v)
    IN Step("tryCatchSync", <<c.v>>, f, "none", c.h,
            tryCatchSync(c.h, Thunk(f, c.v)))

\* tryCatch(fn) where fn() throws: the call returns a promise already
\* fulfilled.
Call_tryCatch ==
  \E f \in AsyncThunks : \E v \in ThunkValues(heap, f) :
    LET c == Retain(heap, v)
        r == tryCatch(c.h, ThunkOf(c.h, f, c.v))
    IN /\ r.out # Pending
       /\ Step("tryCatch", <<c.v>>, f, "none", c.h, r)

\* tryCatch(fn) where fn() returns: the call returns a pending promise and
\* the async function is suspended on the value fn() returned.
Call_tryCatchAwait ==
  \E f \in AsyncThunks : \E v \in ThunkValues(heap, f) :
    LET c == Retain(heap, v)
        r == tryCatch(c.h, ThunkOf(c.h, f, c.v))
    IN /\ task.st # "awaiting"
       /\ r.out = Pending
       /\ op' = "tryCatch"
       /\ args' = <<c.v>>
       /\ fn' = f
       /\ fn2' = "none"
       /\ pre' = c.h
       /\ heap' = r.h
       /\ out' = r.out
       /\ calls' = r.calls
       /\ task' = [st |-> "awaiting",
                   p |-> Awaited(Invoke(c.h, "fn", ThunkOf(c.h, f, c.v), <<>>).out)]

\* The promise the thunk returned settles (the environment's step).
ThunkSettles ==
  /\ task.st = "awaiting"
  /\ fn = "settlesLater"
  /\ task.p = Pending
  /\ \E p \in {Fulfilled(args[1]), Rejected(args[1])} :
       task' = [task EXCEPT !.p = p]
  /\ UNCHANGED <<heap, pre, op, args, fn, fn2, out, calls>>

\* The suspended tryCatch resumes once the promise it awaits has settled.
TryCatchResumes ==
  /\ task.st = "awaiting"
  /\ task.p # Pending
  /\ LET r == tryCatchResume(heap, task.p)
     IN /\ heap' = r.h
        /\ out' = r.out
  /\ task' = [task EXCEPT !.st = "done"]
  /\ UNCHANGED <<pre, op, args, fn, fn2, calls>>

Call_swap ==
  \E r \in Refs(heap) :
    LET c == Retain(heap, r)
    IN Step("swap", <<c.v>>, "none", "none", c.h, swap(c.h, c.v))

Call_fromNullable ==
  \E v \in PlainValues, e \in MissingErrors :
    LET c == Retain(heap, v)
    IN Step("fromNullable", <<c.v, e>>, "none", "none", c.h,
            fromNullable(c.h, c.v, e))

Call_fromUndefined ==
  \E v \in PlainValues, e \in MissingErrors :
    LET c == Retain(heap, v)
    IN Step("fromUndefined", <<c.v, e>>, "none", "none", c.h,
            fromUndefined(c.h, c.v, e))

Call_fromNullish ==
  \E v \in PlainValues, e \in MissingErrors :
    LET c == Retain(heap, v)
    IN Step("fromNullish", <<c.v, e>>, "none", "none", c.h,
            fromNullish(c.h, c.v, e))

Call_fromFalsy ==
  \E v \in PlainValues, e \in MissingErrors :
    LET c == Retain(heap, v)
    IN Step("fromFalsy", <<c.v, e>>, "none", "none", c.h,
            fromFalsy(c.h, c.v, e))

Call_unwrap ==
  \E r \in Inputs(heap) :
    LET c == Retain(heap, r)
    IN Step("unwrap", <<c.v>>, "none", "none", c.h, unwrap(c.h, c.v))

Call_unwrapOr ==
  \E r \in Inputs(heap), d \in Defaults :
    LET c == Retain(heap, r)
    IN Step("unwrapOr", <<c.v, d>>, "none", "none", c.h,
            unwrapOr(c.h, c.v, d))

Call_getOrElse ==
  \E r \in Inputs(heap), d \in Defaults :
    LET c == Retain(heap, r)
    IN Step("getOrElse", <<c.v, d>>, "none", "none", c.h,
            getOrElse(c.h, c.v, d))

Call_equals ==
  \E v \in Inputs(heap), w \in SecondArgs, cmp \in ComparatorNames :
    LET c == Retain(heap, v)
        b == Second(c.h, c.v, w)
    IN Step("equals", <<c.v, b.out.val>>, cmp, "none", b.h,
            equals(b.h, c.v, b.out.val, Fn(cmp)))

\* The combinators and matchers.
Next ==
  \/ Call_Ok
  \/ Call_Err
  \/ Call_Loading
  \/ Call_NotAsked
  \/ Call_mapOk
  \/ Call_mapErr
  \/ Call_flatMapOk
  \/ Call_flatMapErr
  \/ Call_mapRemote
  \/ Call_bimap
  \/ Call_match
  \/ Call_fold
  \/ Call_foldRemote
  \/ Call_toPromise
  \/ Call_swap

Spec == Init /\ [][Next]_vars

\* The guards.
NextGuards ==
  \/ Call_Ok
  \/ Call_Err
  \/ Call_Loading
  \/ Call_NotAsked
  \/ Call_isOk
  \/ Call_isErr
  \/ Call_isLoading
  \/ Call_isNotAsked
  \/ Call_isResult
  \/ Call_isRemoteResult
  \/ Call_isRemoteSuccess
  \/ Call_isRemoteFailure

SpecGuards == Init /\ [][NextGuards]_vars

\* The adapters that capture exceptions and rejections.
NextCapture ==
  \/ Call_Ok
  \/ Call_Err
  \/ Call_Loading
  \/ Call_NotAsked
  \/ Call_tryCatchSync
  \/ Call_tryCatch
  \/ Call_tryCatchAwait
  \/ ThunkSettles
  \/ TryCatchResumes

SpecCapture == Init /\ [][NextCapture]_vars

\* Equality of instances.
NextEquals ==
  \/ Call_Ok
  \/ Call_Err
  \/ Call_Loading
  \/ Call_NotAsked
  \/ Call_equals

SpecEquals == Init /\ [][NextEquals]_vars

\* The same, with the scheduling of the host: the continuation of an await
\* whose promise has settled is run (the microtask queue is drained). Nothing
\* obliges the promise of the thunk to settle.
SpecCaptureLive == SpecCapture /\ WF_vars(TryCatchResumes)

\* The conversions from plain values.
NextFrom ==
  \/ Call_Ok
  \/ Call_Err
  \/ Call_Loading
  \/ Call_NotAsked
  \/ Call_fromNullable
  \/ Call_fromUndefined
  \/ Call_fromNullish
  \/ Call_fromFalsy

SpecFrom == Init /\ [][NextFrom]_vars

\* The extraction of the value.
NextUnwrap ==
  \/ Call_Ok
  \/ Call_Err
  \/ Call_Loading
  \/ Call_NotAsked
  \/ Call_unwrap
  \/ Call_unwrapOr
  \/ Call_getOrElse

SpecUnwrap == Init /\ [][NextUnwrap]_vars

\* The caller has used the outcome of the last call. The library keeps no
\* state of its own: what a call leaves behind is the heap.
Continue ==
  /\ op # "init"
  /\ op' = "init"
  /\ args' = <<>>
  /\ fn' = "none"
  /\ fn2' = "none"
  /\ pre' = heap
  /\ out' = Ret(Undefined)
  /\ calls' = <<>>
  /\ UNCHANGED <<heap, task>>

\* Every synchronous operation of the library.
AnyCall ==
  \/ Call_Ok
  \/ Call_Err
  \/ Call_Loading
  \/ Call_NotAsked
  \/ Call_isOk
  \/ Call_isErr
  \/ Call_isLoading
  \/ Call_isNotAsked
  \/ Call_isResult
  \/ Call_isRemoteResult
  \/ Call_isRemoteSuccess
  \/ Call_isRemoteFailure
  \/ Call_mapOk
  \/ Call_mapErr
  \/ Call_flatMapOk
  \/ Call_flatMapErr
  \/ Call_mapRemote
  \/ Call_bimap
  \/ Call_swap
  \/ Call_match
  \/ Call_fold
  \/ Call_foldRemote
  \/ Call_equals
  \/ Call_unwrap
  \/ Call_unwrapOr
  \/ Call_getOrElse
  \/ Call_toPromise
  \/ Call_fromNullable
  \/ Call_fromUndefined
  \/ Call_fromNullish
  \/ Call_fromFalsy
  \/ Call_tryCatchSync

\* Calls follow one another, each on the instances the earlier ones left.
NextAll ==
  \/ op = "init" /\ AnyCall
  \/ Continue

SpecAll == Init /\ [][NextAll]_vars

-----------------------------------------------------------------------------
(* Vocabulary of the properties *)

\* The instances the caller built that are on the heap.
Built == {v \in Refs(heap) : IsConstructed(v)}

\* The tag of an object, read directly.
Tag(h, v) == h[v.n].type.s

\* v is a record tagged tag that has the field key.
TaggedWith(h, v, tag, key) ==
  /\ v.k = "ref"
  /\ {"type", key} \subseteq h[v.n].has
  /\ h[v.n].type = Str(tag)

\* v is an instance: a record tagged ok with a value, err with an error,
\* loading or not-asked.
WellFormed(h, v) ==
  \/ TaggedWith(h, v, "ok", "value")
  \/ TaggedWith(h, v, "err", "error")
  \/ TaggedWith(h, v, "loading", "type")
  \/ TaggedWith(h, v, "not-asked", "type")

\* v is an instance that has the fields of its own tag and no other.
Exact(h, v) ==
  /\ WellFormed(h, v)
  /\ h[v.n].has = CASE h[v.n].type = Str("ok") -> {"type", "value"}
                    [] h[v.n].type = Str("err") -> {"type", "error"}
                    [] OTHER -> {"type"}

\* The objects the four constructors build.
OkObj(v) == Obj({"type", "value"}, Str("ok"), v, Undefined)
ErrObj(e) == Obj({"type", "error"}, Str("err"), Undefined, e)

\* Structural equality (deepStrictEqual) of v1 on heap h1 and v2 on heap h2,
\* to the depth the values of this model nest.
Eq0(h1, v1, h2, v2) == v1 = v2

Eq1(h1, v1, h2, v2) ==
  IF v1.k = "ref" /\ v2.k = "ref"
  THEN /\ h1[v1.n].has = h2[v2.n].has
       /\ \A key \in {"type", "value", "error"} :
            Eq0(h1, h1[v1.n][key], h2, h2[v2.n][key])
  ELSE v1 = v2

DeepEqual(h1, v1, h2, v2) ==
  IF v1.k = "ref" /\ v2.k = "ref"
  THEN /\ h1[v1.n].has = h2[v2.n].has
       /\ \A key \in {"type", "value", "error"} :
            Eq1(h1, h1[v1.n][key], h2, h2[v2.n][key])
  ELSE v1 = v2

\* Two calls end alike: both return, or both throw, structurally equal values.
SameOutcome(r1, r2) ==
  /\ r1.out.kind = r2.out.kind
  /\ DeepEqual(r1.h, r1.out.val, r2.h, r2.out.val)

ConstructorOps == {"Ok", "Err", "Loading", "NotAsked"}

\* The guards that accept v, by name.
GuardsOf(h, v) ==
  {g \in ConstructorOps :
     \/ g = "Ok" /\ ok(h, v)
     \/ g = "Err" /\ err(h, v)
     \/ g = "Loading" /\ loading(h, v)
     \/ g = "NotAsked" /\ notAsked(h, v)}

-----------------------------------------------------------------------------
(* Properties *)

\* C1. Variant exclusivity: every instance built by Ok, Err, Loading or
\* NotAsked is accepted by exactly one of isOk, isErr, isLoading, isNotAsked,
\* and an instance just built is accepted by the guard of its constructor.
C1_VariantExclusivity ==
  /\ \A v \in Built : Cardinality(GuardsOf(heap, v)) = 1
  /\ op \in ConstructorOps => GuardsOf(heap, out.val) = {op}

C1_Witness ==
  /\ op = "Ok"
  /\ args = <<Undefined>>
  /\ GuardsOf(heap, out.val) = {"Ok"}

\* C2. Functor laws for mapOk: mapOk(Ok(v), f) is Ok(f(v)); for every built r
\* and all f, g, mapOk(mapOk(r, f), g) equals mapOk(r, x => g(f(x))) and
\* mapOk(r, x => x) equals r, structurally.
C2_MapOkOfOk ==
  (op = "mapOk" /\ IsConstructed(args[1]) /\ Tag(pre, args[1]) = "ok")
    => LET m == ApplyNamed(pre, Fn(fn), Get(pre, args[1], "value"))
       IN IF Thrown(m) THEN out = m.out
          ELSE /\ out.kind = "return"
               /\ out.val.k = "ref"
               /\ heap[out.val.n] = OkObj(m.out.val)

C2_Composition ==
  \A r \in Built : \A f \in MapperNames, g \in MapperNames :
    LET a == mapOk(heap, r, Fn(f))
        lhs == IF Thrown(a) THEN a ELSE mapOk(a.h, a.out.val, Fn(g))
        rhs == mapOk(heap, r, Compose(f, g))
    IN SameOutcome(lhs, rhs)

C2_Identity ==
  \A r \in Built :
    LET a == mapOk(heap, r, Fn("identity"))
    IN Returned(a) /\ DeepEqual(a.h, a.out.val, heap, r)

C2_FunctorLaws == C2_MapOkOfOk /\ C2_Composition /\ C2_Identity

C2_Witness ==
  /\ op = "mapOk"
  /\ fn = "double"
  /\ Tag(pre, args[1]) = "ok"
  /\ heap[out.val.n] = OkObj(Num(4))
  /\ LET b == mapOk(heap, out.val, Fn("double"))
     IN b.h[b.out.val.n] = OkObj(Num(8))

\* C3. Monad laws for flatMapOk, for every built r and all result-returning
\* f, g: flatMapOk(Ok(v), f) equals f(v); flatMapOk(r, Ok) equals r;
\* flatMapOk(flatMapOk(r, f), g) equals flatMapOk(r, x => flatMapOk(f(x), g)).
C3_LeftIdentity ==
  \A r \in Built : \A f \in BindNames :
    ok(heap, r) =>
      SameOutcome(flatMapOk(heap, r, Fn(f)),
                  ApplyNamed(heap, Fn(f), Get(heap, r, "value")))

C3_RightIdentity ==
  \A r \in Built :
    LET a == flatMapOk(heap, r, Fn("Ok"))
    IN a.out.kind = "return" /\ DeepEqual(a.h, a.out.val, heap, r)

C3_Associativity ==
  \A r \in Built : \A f \in BindNames, g \in BindNames :
    LET a == flatMapOk(heap, r, Fn(f))
        lhs == IF Thrown(a) THEN a ELSE flatMapOk(a.h, a.out.val, Fn(g))
        x == Get(heap, r, "value")
        fx == ApplyNamed(heap, Fn(f), x)
        \* x => flatMapOk(f(x), g), at the one argument it can be called with
        k == Tabulated(x, IF Thrown(fx) THEN fx
                          ELSE flatMapOk(fx.h, fx.out.val, Fn(g)))
        rhs == flatMapOk(heap, r, k)
    IN SameOutcome(lhs, rhs)

C3_MonadLaws == C3_LeftIdentity /\ C3_RightIdentity /\ C3_Associativity

C3_Witness ==
  /\ op = "flatMapOk"
  /\ fn = "okDouble"
  /\ Tag(pre, args[1]) = "ok"
  /\ heap[out.val.n] = OkObj(Num(2))
  /\ LET b == flatMapOk(heap, out.val, Fn("Err"))
     IN b.h[b.out.val.n] = ErrObj(Num(2))

\* C4. Pass-through: mapOk and flatMapOk return an Err, Loading or NotAsked
\* input itself, and mapErr and flatMapErr an Ok, Loading or NotAsked input
\* itself, without invoking the mapper and leaving the heap as it was.
PassesThrough == out = Ret(args[1]) /\ calls = <<>> /\ heap = pre

C4_PassThrough ==
  /\ (op \in {"mapOk", "flatMapOk"} /\ IsConstructed(args[1])
      /\ Tag(pre, args[1]) \in {"err", "loading", "not-asked"})
       => PassesThrough
  /\ (op \in {"mapErr", "flatMapErr"} /\ IsConstructed(args[1])
      /\ Tag(pre, args[1]) \in {"ok", "loading", "not-asked"})
       => PassesThrough

C4_Witness ==
  /\ op = "mapErr"
  /\ fn = "double"
  /\ IsConstructed(args[1])
  /\ Tag(pre, args[1]) = "ok"
  /\ PassesThrough

\* C5. The failure channel: mapErr(Err(e), f) is Err(f(e)) and
\* flatMapErr(Err(e), f) is f(e) itself, so that the recovery function
\* e => e === 'net' ? Ok('cached') : Err(e) turns Err('net') into
\* Ok('cached') and keeps any other Err.
C5_FailureChannel ==
  /\ (op = "mapErr" /\ IsConstructed(args[1]) /\ Tag(pre, args[1]) = "err")
       => LET m == ApplyNamed(pre, Fn(fn), Get(pre, args[1], "error"))
          IN IF Thrown(m) THEN out = m.out
             ELSE /\ out.kind = "return"
                  /\ out.val.k = "ref"
                  /\ heap[out.val.n] = ErrObj(m.out.val)
  /\ (op = "flatMapErr" /\ IsConstructed(args[1]) /\ Tag(pre, args[1]) = "err")
       => LET m == ApplyNamed(pre, Fn(fn), Get(pre, args[1], "error"))
          IN /\ out = m.out
             /\ heap = m.h
             /\ fn = "recover" =>
                  /\ out.kind = "return"
                  /\ heap[out.val.n] =
                       IF Get(pre, args[1], "error") = Str("net")
                       THEN OkObj(Str("cached"))
                       ELSE ErrObj(Get(pre, args[1], "error"))

C5_Witness ==
  /\ op = "flatMapErr"
  /\ fn = "recover"
  /\ pre[args[1].n] = ErrObj(Str("net"))
  /\ heap[out.val.n] = OkObj(Str("cached"))

\* C6. Exception capture: tryCatchSync(fn) never throws, and returns Ok(x)
\* when fn returns x and Err(X) when fn throws X; the promise tryCatch(fn)
\* returns never rejects, and is fulfilled with Ok(v) when the promise of the
\* thunk is fulfilled with v, and with Err(x) when it is rejected with x or
\* the thunk throws x.
IsRefTo(h, o, obj) == o.k = "ref" /\ h[o.n] = obj

C6_Sync ==
  op = "tryCatchSync"
    => /\ out.kind = "return"
       /\ fn = "returns" => IsRefTo(heap, out.val, OkObj(args[1]))
       /\ fn = "throws" => IsRefTo(heap, out.val, ErrObj(args[1]))

C6_Async ==
  op = "tryCatch"
    => /\ out.kind \in {"pending", "fulfilled"}
       /\ out.kind = "pending" <=> task.st = "awaiting"
       /\ (fn = "throws") => (out.kind = "fulfilled"
                              /\ IsRefTo(heap, out.val, ErrObj(args[1])))
       /\ (task.st = "done" /\ task.p.kind = "fulfilled")
            => IsRefTo(heap, out.val, OkObj(task.p.val))
       /\ (task.st = "done" /\ task.p.kind = "rejected")
            => IsRefTo(heap, out.val, ErrObj(task.p.val))
       /\ (task.st = "done" /\ fn \in {"returns", "resolves"})
            => IsRefTo(heap, out.val, OkObj(args[1]))
       /\ (task.st = "done" /\ fn = "rejects")
            => IsRefTo(heap, out.val, ErrObj(args[1]))

C6_ExceptionCapture == C6_Sync /\ C6_Async

C6_Witness ==
  /\ op = "tryCatch"
  /\ fn = "settlesLater"
  /\ task.st = "done"
  /\ task.p = Rejected(Str("ok"))
  /\ out.kind = "fulfilled"
  /\ heap[out.val.n] = ErrObj(Str("ok"))

\* C7. Outside tryCatchSync and tryCatch no fault becomes a value: when the
\* mapper or handler that mapOk, mapErr, flatMapOk, flatMapErr, bimap,
\* mapRemote, match, fold or foldRemote invokes throws X, the call throws X,
\* and builds nothing.
PropagatingOps ==
  {"mapOk", "mapErr", "flatMapOk", "flatMapErr", "bimap", "mapRemote",
   "match", "fold", "foldRemote"}

\* The last function the call invoked is one that throws.
InvokedThrower == calls # <<>> /\ calls[Len(calls)].fn = "throwBoom"

C7_FaultsPropagate ==
  (op \in PropagatingOps /\ InvokedThrower)
    => out = Throw(Boom) /\ heap = pre

C7_Witness ==
  /\ op = "bimap"
  /\ fn = "double"
  /\ fn2 = "throwBoom"
  /\ Tag(pre, args[1]) = "err"
  /\ InvokedThrower
  /\ out = Throw(Boom)

\* C8. Structural misuse is a throw: fold, bimap and toPromise throw when
\* given Loading() or NotAsked(), and match, foldRemote, fold and bimap
\* throw 'Invalid result type' when given a record whose type is none of the
\* four tags; no handler is invoked and nothing is built.
InvalidType == ErrorObj("Invalid result type")
NoPromise == ErrorObj("Cannot convert Loading or NotAsked to Promise")

\* A record whose type is none of ok, err, loading, not-asked.
Untagged(h, v) ==
  /\ v.k = "ref"
  /\ h[v.n].type \notin {Str("ok"), Str("err"), Str("loading"), Str("not-asked")}

C8_MisuseThrows ==
  /\ (op \in {"fold", "bimap", "toPromise"} /\ IsConstructed(args[1])
      /\ Tag(pre, args[1]) \in {"loading", "not-asked"})
       => /\ out = Throw(IF op = "toPromise" THEN NoPromise ELSE InvalidType)
          /\ calls = <<>>
          /\ heap = pre
  /\ (op \in {"match", "foldRemote", "fold", "bimap"} /\ Untagged(pre, args[1]))
       => /\ out = Throw(InvalidType)
          /\ calls = <<>>
          /\ heap = pre

C8_Witness ==
  /\ op = "fold"
  /\ fn = "handlers"
  /\ IsConstructed(args[1])
  /\ Tag(pre, args[1]) = "loading"
  /\ out = Throw(InvalidType)

\* C9. Dispatch is total and single-shot: on every built instance match and
\* foldRemote invoke exactly one handler, once: the one of the tag of the
\* instance, with the value (ok, success), the error (err, failure) or no
\* argument (loading, notAsked), and end as that handler ends; fold does so
\* for Ok and Err.
\* The handler slot for a tag, and the arguments it is to be called with.
SlotOf(o, tag) ==
  CASE tag = "ok" -> IF o = "match" THEN "ok"
                     ELSE IF o = "fold" THEN "onOk" ELSE "success"
    [] tag = "err" -> IF o = "match" THEN "err"
                      ELSE IF o = "fold" THEN "onErr" ELSE "failure"
    [] tag = "loading" -> "loading"
    [] OTHER -> "notAsked"

ArgsOf(h, v) ==
  CASE Tag(h, v) = "ok" -> <<Get(h, v, "value")>>
    [] Tag(h, v) = "err" -> <<Get(h, v, "error")>>
    [] OTHER -> <<>>

\* How the handler of the set fn for a tag ends when called with a.
HandlerOutcome(tag, a) ==
  IF fn = "throwing" THEN Throw(Boom)
  ELSE CASE tag \in {"ok", "err"} -> Ret(a[1])
         [] tag = "loading" -> Ret(Str("loading"))
         [] OTHER -> Ret(Str("not-asked"))

C9_SingleDispatch ==
  (/\ op \in {"match", "foldRemote", "fold"}
   /\ IsConstructed(args[1])
   /\ op = "fold" => Tag(pre, args[1]) \in {"ok", "err"})
    => LET tag == Tag(pre, args[1])
       IN /\ Len(calls) = 1
          /\ calls[1].slot = SlotOf(op, tag)
          /\ calls[1].args = ArgsOf(pre, args[1])
          /\ out = HandlerOutcome(tag, calls[1].args)

C9_Witness ==
  /\ op = "foldRemote"
  /\ fn = "handlers"
  /\ IsConstructed(args[1])
  /\ Tag(pre, args[1]) = "not-asked"
  /\ calls = <<[slot |-> "notAsked", fn |-> "constNotAsked", args |-> <<>>]>>
  /\ out = Ret(Str("not-asked"))

\* C10. Guards do not throw on malformed input: without validators, isOk,
\* isErr, isLoading, isNotAsked, isResult and isRemoteResult return false for
\* null, undefined, primitives, records without a type field, records with
\* an unrecognized type, an ok-tagged record without a value field and an
\* err-tagged record without an error field.
GuardOps ==
  {"isOk", "isErr", "isLoading", "isNotAsked", "isResult", "isRemoteResult"}

\* A value that is no object, a record without a type or with a type that is
\* none of the four, an ok record without value, an err record without error.
Malformed(h, v) == ~WellFormed(h, v)

C10_GuardsNeverThrow ==
  (op \in GuardOps /\ fn = "none" /\ fn2 = "none" /\ Malformed(pre, args[1]))
    => out = Ret(Bool(FALSE)) /\ calls = <<>>

C10_Witness ==
  /\ op = "isRemoteResult"
  /\ fn = "none"
  /\ fn2 = "none"
  /\ args[1].k = "ref"
  /\ pre[args[1].n] = Obj({"type"}, Str("ok"), Undefined, Undefined)
  /\ out = Ret(Bool(FALSE))

\* C11. Guard with validator: isOk(v, p) and isRemoteSuccess(v, p) accept v
\* iff v is an ok-tagged record with a value field and p(v.value) is truthy;
\* isErr(v, p) and isRemoteFailure(v, p) accept v iff v is an err-tagged
\* record with an error field and p(v.error) is truthy. When the tag matches
\* the validator is called once, with the payload, and its result is the
\* result of the guard; when the tag does not match the guard returns false
\* and the validator is not called.
\* What the validator named p answers for x: accepted, when there is none.
Verdict(p, x) ==
  IF p = "none" THEN Ret(Bool(TRUE)) ELSE ApplyNamed(pre, Fn(p), x).out

\* The validator named p accepts x: its answer is truthy.
Accepts(p, x) ==
  CASE p = "isNumber" -> x.k \in {"number", "nan"}
    [] p = "never" -> FALSE
    [] p = "identity" -> Truthy(x)
    [] OTHER -> TRUE

C11_Channel(ops, tag, key) ==
  op \in ops
    => IF TaggedWith(pre, args[1], tag, key)
       THEN LET x == pre[args[1].n][key]
            IN /\ out = Verdict(fn, x)
               /\ Truthy(out.val) <=> Accepts(fn, x)
               /\ fn # "none"
                    => calls = <<[slot |-> "validator", fn |-> fn,
                                  args |-> <<x>>]>>
               /\ fn = "never" => out = Ret(Bool(FALSE))
       ELSE out = Ret(Bool(FALSE)) /\ calls = <<>>

C11_GuardWithValidator ==
  /\ C11_Channel({"isOk", "isRemoteSuccess"}, "ok", "value")
  /\ C11_Channel({"isErr", "isRemoteFailure"}, "err", "error")

C11_Witness ==
  /\ op = "isRemoteFailure"
  /\ fn = "never"
  /\ IsConstructed(args[1])
  /\ Tag(pre, args[1]) = "err"
  /\ Len(calls) = 1
  /\ out = Ret(Bool(FALSE))

\* C12. isResult(v, vv, ev) accepts v iff exactly one of isOk(v, vv) and
\* isErr(v, ev) does; the value validator is called for ok-tagged input
\* only and the error validator for err-tagged input only, so that an Err
\* is accepted whatever the value validator, an Ok whatever the error
\* validator; Loading and NotAsked are rejected.
\* The validator calls a guard is to make on v: vv on the value of an Ok, ev
\* on the error of an Err, none otherwise.
ValidatorCalls(v, vv, ev) ==
  IF TaggedWith(pre, v, "ok", "value") /\ vv # "none"
  THEN <<[slot |-> "valueValidator", fn |-> vv,
          args |-> <<pre[v.n].value>>]>>
  ELSE IF TaggedWith(pre, v, "err", "error") /\ ev # "none"
  THEN <<[slot |-> "errorValidator", fn |-> ev,
          args |-> <<pre[v.n].error>>]>>
  ELSE <<>>

C12_IsResult ==
  op = "isResult"
    => LET v == args[1]
           a == isOk(pre, v, Fn(fn))
           b == isErr(pre, v, Fn(fn2))
       IN /\ out.kind = "return"
          /\ Truthy(out.val) <=> (Truthy(a.out.val) # Truthy(b.out.val))
          /\ calls = ValidatorCalls(v, fn, fn2)
          /\ (TaggedWith(pre, v, "err", "error") /\ fn2 = "none")
               => out = Ret(Bool(TRUE))
          /\ (TaggedWith(pre, v, "ok", "value") /\ fn = "none")
               => out = Ret(Bool(TRUE))
          /\ (IsConstructed(v) /\ Tag(pre, v) \in {"loading", "not-asked"})
               => out = Ret(Bool(FALSE))

C12_Witness ==
  /\ op = "isResult"
  /\ fn = "never"
  /\ fn2 = "none"
  /\ IsConstructed(args[1])
  /\ Tag(pre, args[1]) = "err"
  /\ calls = <<>>
  /\ out = Ret(Bool(TRUE))

\* C13. isRemoteResult(v, vv, ev) returns true for every Loading and
\* NotAsked, whatever the validators, and calls none of them; on every other
\* input it does what isResult(v, vv, ev) does.
C13_IsRemoteResult ==
  op = "isRemoteResult"
    => LET v == args[1]
           r == isResult(pre, v, Fn(fn), Fn(fn2))
       IN IF \/ TaggedWith(pre, v, "loading", "type")
             \/ TaggedWith(pre, v, "not-asked", "type")
          THEN out = Ret(Bool(TRUE)) /\ calls = <<>>
          ELSE /\ out = r.out
               /\ calls = r.calls
               /\ calls = ValidatorCalls(v, fn, fn2)

C13_Witness ==
  /\ op = "isRemoteResult"
  /\ fn = "never"
  /\ fn2 = "never"
  /\ IsConstructed(args[1])
  /\ Tag(pre, args[1]) = "not-asked"
  /\ calls = <<>>
  /\ out = Ret(Bool(TRUE))

\* C14. equals is defensive: when a or b is not accepted by isRemoteResult
\* (null, undefined, a primitive, {}, a record with an unrecognized tag, an
\* ok or err record without its payload field), equals(a, b, cmp) returns
\* false, does not throw and does not call cmp.
C14_EqualsDefensive ==
  (op = "equals" /\ (~WellFormed(pre, args[1]) \/ ~WellFormed(pre, args[2])))
    => out = Ret(Bool(FALSE)) /\ calls = <<>>

C14_Witness ==
  /\ op = "equals"
  /\ fn = "deepEquals"
  /\ args[1].k = "ref"
  /\ pre[args[1].n] = Obj({"type"}, Str("ok"), Undefined, Undefined)
  /\ IsConstructed(args[2])
  /\ pre[args[2].n] = OkObj(Undefined)
  /\ out = Ret(Bool(FALSE))

\* C15. equals on two instances: false when the tags differ, without a call
\* of the comparator; true for Loading/Loading and NotAsked/NotAsked
\* whatever the comparator; for Ok/Ok and Err/Err what cmp(payloadA,
\* payloadB) returns when a comparator is passed, and strict identity (===)
\* of the payloads otherwise, so that two distinct objects of equal content
\* are unequal by default and equal under a structural comparator.
C15_Payloads(a, b, key) ==
  LET x == pre[a.n][key]
      y == pre[b.n][key]
  IN IF fn = "none"
     THEN /\ out = Ret(Bool(x = y /\ x.k # "nan"))
          /\ calls = <<>>
     ELSE /\ out = Compare(pre, Fn(fn), x, y).out
          /\ calls = <<[slot |-> "valueEquals", fn |-> fn, args |-> <<x, y>>]>>
          /\ (fn = "deepEquals" /\ x.k = "ref" /\ y.k = "ref"
              /\ pre[x.n] = pre[y.n])
               => out = Ret(Bool(TRUE))

C15_EqualsOnInstances ==
  (op = "equals" /\ WellFormed(pre, args[1]) /\ WellFormed(pre, args[2]))
    => LET a == args[1]
           b == args[2]
       IN CASE Tag(pre, a) # Tag(pre, b) ->
                 out = Ret(Bool(FALSE)) /\ calls = <<>>
            [] Tag(pre, a) = Tag(pre, b) /\ Tag(pre, a) = "ok" ->
                 C15_Payloads(a, b, "value")
            [] Tag(pre, a) = Tag(pre, b) /\ Tag(pre, a) = "err" ->
                 C15_Payloads(a, b, "error")
            [] OTHER -> out = Ret(Bool(TRUE)) /\ calls = <<>>

\* Ok({}) and Ok({}) of two distinct empty objects: equal under deepEquals,
\* unequal without comparator.
C15_Witness ==
  /\ op = "equals"
  /\ fn = "deepEquals"
  /\ IsConstructed(args[1])
  /\ IsConstructed(args[2])
  /\ pre[args[1].n] = OkObj(Ref(1))
  /\ pre[args[2].n] = OkObj(Ref(Len(InitialHeap)))
  /\ out = Ret(Bool(TRUE))
  /\ equals(pre, args[1], args[2], NoFn).out = Ret(Bool(FALSE))

\* C16. swap interchanges the channels and is an involution: swap(Ok(v)) is
\* Err(v), swap(Err(e)) is Ok(e), swap(swap(r)) is structurally equal to r
\* for every Ok or Err r, and swap returns Loading and NotAsked unchanged.
C16_Swap ==
  (op = "swap" /\ IsConstructed(args[1]))
    => LET r == args[1]
           back == swap(heap, out.val)
       IN /\ out.kind = "return"
          /\ Tag(pre, r) = "ok"
               => IsRefTo(heap, out.val, ErrObj(pre[r.n].value))
          /\ Tag(pre, r) = "err"
               => IsRefTo(heap, out.val, OkObj(pre[r.n].error))
          /\ Tag(pre, r) \in {"ok", "err"}
               => /\ Returned(back)
                  /\ DeepEqual(back.h, back.out.val, pre, r)
          /\ Tag(pre, r) \in {"loading", "not-asked"}
               => out = Ret(r) /\ heap = pre

C16_Witness ==
  /\ op = "swap"
  /\ IsConstructed(args[1])
  /\ pre[args[1].n] = ErrObj(Str("net"))
  /\ out.val # args[1]
  /\ heap[out.val.n] = OkObj(Str("net"))
  /\ LET back == swap(heap, out.val)
     IN back.h[back.out.val.n] = ErrObj(Str("net"))

\* C17. bimap(r, okF, errF) returns Ok(okF(v)) for r = Ok(v) and
\* Err(errF(e)) for r = Err(e), and calls exactly one of the two mappers,
\* once: okF for an Ok, errF for an Err.
C17_Bimap ==
  (op = "bimap" /\ IsConstructed(args[1]) /\ Tag(pre, args[1]) \in {"ok", "err"})
    => LET isok == Tag(pre, args[1]) = "ok"
           x == IF isok THEN pre[args[1].n].value ELSE pre[args[1].n].error
           f == IF isok THEN fn ELSE fn2
           m == ApplyNamed(pre, Fn(f), x)
       IN /\ calls = <<[slot |-> IF isok THEN "okMapper" ELSE "errMapper",
                        fn |-> f, args |-> <<x>>]>>
          /\ Returned(m)
               => /\ out.kind = "return"
                  /\ IsRefTo(heap, out.val,
                             IF isok THEN OkObj(m.out.val) ELSE ErrObj(m.out.val))

C17_Witness ==
  /\ op = "bimap"
  /\ fn = "double"
  /\ fn2 = "identity"
  /\ IsConstructed(args[1])
  /\ pre[args[1].n] = OkObj(Num(1))
  /\ Len(calls) = 1
  /\ calls[1].slot = "okMapper"
  /\ heap[out.val.n] = OkObj(Num(2))

\* C18. mapRemote and mapOk are the same operation: on every built instance
\* r of the four variants and every f, mapRemote(r, f) ends as mapOk(r, f)
\* does, with the same calls of f: Ok(f(v)) for Ok(v), and r itself, without
\* a call of f, for Err, Loading and NotAsked.
C18_MapRemoteIsMapOk ==
  (op = "mapRemote" /\ IsConstructed(args[1]))
    => LET r == args[1]
           m == mapOk(pre, r, Fn(fn))
       IN /\ out = m.out
          /\ heap = m.h
          /\ calls = m.calls
          /\ Tag(pre, r) # "ok" => (out = Ret(r) /\ calls = <<>> /\ heap = pre)
          /\ (Tag(pre, r) = "ok" /\ out.kind = "return")
               => IsRefTo(heap, out.val,
                          OkObj(ApplyNamed(pre, Fn(fn), pre[r.n].value).out.val))

C18_Witness ==
  /\ op = "mapRemote"
  /\ fn = "double"
  /\ IsConstructed(args[1])
  /\ Tag(pre, args[1]) = "not-asked"
  /\ out = Ret(args[1])
  /\ mapOk(pre, args[1], Fn("double")).out = Ret(args[1])

\* C19. toPromise bridges a Result to a promise: toPromise(Ok(v)) returns a
\* promise fulfilled with v, toPromise(Err(e)) returns a promise rejected
\* with e itself, and toPromise(Loading()) and toPromise(NotAsked()) throw
\* synchronously, returning no promise.
C19_ToPromise ==
  (op = "toPromise" /\ IsConstructed(args[1]))
    => LET r == args[1]
       IN /\ Tag(pre, r) = "ok" => out = Fulfilled(pre[r.n].value)
          /\ Tag(pre, r) = "err" => out = Rejected(pre[r.n].error)
          /\ Tag(pre, r) \in {"loading", "not-asked"}
               => out.kind = "throw" /\ out.val.k = "error"
          /\ heap = pre
          /\ calls = <<>>

C19_Witness ==
  /\ op = "toPromise"
  /\ IsConstructed(args[1])
  /\ pre[args[1].n] = ErrObj(Ref(1))
  /\ out = Rejected(Ref(1))

\* C20. tryCatch completes exactly when its thunk does: the promise it
\* returned is pending in every state where the promise of the thunk is
\* pending; it never settles when the promise of the thunk never settles;
\* and once the promise of the thunk has settled, it is eventually fulfilled.
\* The suspended tryCatch awaits a promise that is still pending.
ThunkPending == op = "tryCatch" /\ task.st = "awaiting" /\ task.p = Pending

\* The promise the suspended tryCatch awaits has settled.
ThunkSettled == op = "tryCatch" /\ task.st = "awaiting" /\ task.p # Pending

C20_PendingWhileThunkPending == ThunkPending => out = Pending

\* A thunk whose promise never settles leaves tryCatch suspended.
C20_NeverIfThunkNever ==
  (op = "tryCatch" /\ fn = "hangs") => (ThunkPending /\ out = Pending)

\* The returned promise settles only after the thunk threw or its promise
\* settled.
C20_OnlyAfterThunk ==
  (op = "tryCatch" /\ out # Pending)
    => \/ Thrown(Invoke(pre, "fn", ThunkOf(pre, fn, args[1]), <<>>))
       \/ task.st = "done" /\ task.p # Pending

C20_CompletesWithThunk ==
  /\ [](C20_PendingWhileThunkPending /\ C20_NeverIfThunkNever /\ C20_OnlyAfterThunk)
  /\ ThunkSettled ~> (op = "tryCatch" /\ out.kind = "fulfilled")

C20_Witness ==
  /\ op = "tryCatch"
  /\ fn = "settlesLater"
  /\ task.st = "done"
  /\ task.p = Fulfilled(Num(1))
  /\ out.kind = "fulfilled"
  /\ heap[out.val.n] = OkObj(Num(1))

\* C21. fromNullable and fromNullish behave alike: for every value v and
\* error e, fromNullable(v, e) equals fromNullish(v, e); both are Err(e) iff
\* v is null or undefined and Ok(v) otherwise, so that 0, the empty string
\* and false give Ok.
C21_NullableIsNullish ==
  op \in {"fromNullable", "fromNullish"}
    => LET v == args[1]
           e == args[2]
           other == IF op = "fromNullable" THEN fromNullish(pre, v, e)
                    ELSE fromNullable(pre, v, e)
       IN /\ out = other.out
          /\ heap = other.h
          /\ IF v \in {Null, Undefined}
             THEN IsRefTo(heap, out.val, ErrObj(e))
             ELSE IsRefTo(heap, out.val, OkObj(v))
          /\ v \in {Num(0), Str(""), Bool(FALSE)}
               => heap[out.val.n].type = Str("ok")

C21_Witness ==
  /\ op = "fromNullable"
  /\ args = <<Num(0), Str("net")>>
  /\ heap[out.val.n] = OkObj(Num(0))
  /\ LET other == fromNullish(pre, Num(0), Str("net"))
     IN other.h[other.out.val.n] = OkObj(Num(0))

\* C22. fromUndefined(v, e) is Err(e) iff v is undefined; null counts as
\* present: fromUndefined(null, e) is Ok(null), and null is the only input
\* on which fromUndefined and fromNullable differ.
C22_FromUndefined ==
  op = "fromUndefined"
    => LET v == args[1]
           e == args[2]
           n == fromNullable(pre, v, e)
       IN /\ IF v = Undefined
             THEN IsRefTo(heap, out.val, ErrObj(e))
             ELSE IsRefTo(heap, out.val, OkObj(v))
          /\ v = Null => IsRefTo(heap, out.val, OkObj(Null))
          /\ (heap[out.val.n] # n.h[n.out.val.n]) <=> v = Null

C22_Witness ==
  /\ op = "fromUndefined"
  /\ args = <<Null, Str("net")>>
  /\ heap[out.val.n] = OkObj(Null)
  /\ LET n == fromNullable(pre, Null, Str("net"))
     IN n.h[n.out.val.n] = ErrObj(Str("net"))

\* C23. fromFalsy(v, e) is Ok(v) iff v is truthy and Err(e) otherwise: 0, the
\* empty string, false, null, undefined and NaN give Err(e); other numbers
\* and strings and every object give Ok(v); it differs from fromNullable
\* exactly on the falsy values that are neither null nor undefined.
FalsyValues == {Num(0), Str(""), Bool(FALSE), Null, Undefined, NaN}

C23_FromFalsy ==
  op = "fromFalsy"
    => LET v == args[1]
           e == args[2]
           n == fromNullable(pre, v, e)
       IN /\ IF v \in FalsyValues
             THEN IsRefTo(heap, out.val, ErrObj(e))
             ELSE IsRefTo(heap, out.val, OkObj(v))
          /\ (heap[out.val.n] # n.h[n.out.val.n])
               <=> v \in FalsyValues \ {Null, Undefined}

C23_Witness ==
  /\ op = "fromFalsy"
  /\ args = <<NaN, Null>>
  /\ heap[out.val.n] = ErrObj(Null)

\* C24. unwrap(r) returns v when r is Ok(v); for every other input, an Err,
\* a Loading, a NotAsked or a malformed value, it throws an Error whose
\* message is 'Tried to unwrap a non-ok result'.
C24_Unwrap ==
  op = "unwrap"
    => LET r == args[1]
       IN /\ IF TaggedWith(pre, r, "ok", "value")
             THEN out = Ret(pre[r.n].value)
             ELSE out = Throw(ErrorObj("Tried to unwrap a non-ok result"))
          /\ heap = pre
          /\ calls = <<>>

C24_Witness ==
  /\ op = "unwrap"
  /\ IsConstructed(args[1])
  /\ pre[args[1].n] = ErrObj(Str("net"))
  /\ out = Throw(ErrorObj("Tried to unwrap a non-ok result"))

\* C25. unwrapOr(r, d) returns v when r is Ok(v) and returns d, without
\* throwing, when r is an Err, a Loading or a NotAsked; getOrElse(r, d)
\* returns what unwrapOr(r, d) returns.
C25_UnwrapOr ==
  op \in {"unwrapOr", "getOrElse"}
    => LET r == args[1]
           d == args[2]
       IN /\ IF TaggedWith(pre, r, "ok", "value")
             THEN out = Ret(pre[r.n].value)
             ELSE out = Ret(d)
          /\ heap = pre
          /\ calls = <<>>
          /\ op = "getOrElse" => out = unwrapOr(pre, r, d).out

C25_Witness ==
  /\ op = "getOrElse"
  /\ IsConstructed(args[1])
  /\ Tag(pre, args[1]) = "loading"
  /\ args[2] = Num(0)
  /\ out = Ret(Num(0))

\* C27. As the README documents (unwrap "throws on error", with the example
\* unwrap(Err('error')) // throws "error"), unwrap applied to Err(e) throws
\* the payload e of the Err. The source throws a new Error with a fixed
\* message instead, whatever e is: the statement fails of the code.
C27_UnwrapThrowsPayload ==
  (op = "unwrap" /\ IsConstructed(args[1]) /\ Tag(pre, args[1]) = "err")
    => out = Throw(pre[args[1].n].error)

\* C29 (as claimed). The guards accept only instances that carry the payload
\* fields of their own tag and no other: every record accepted by isOk,
\* isErr, isLoading, isNotAsked or isRemoteResult without validators has a
\* value field only when its type is ok and an error field only when its
\* type is err. The guards do not look at the fields of other tags, and
\* the statement fails of { type: 'loading', value: 1 }.
PlainGuardCall ==
  /\ op \in {"isOk", "isErr", "isLoading", "isNotAsked", "isRemoteResult"}
  /\ fn = "none"
  /\ fn2 = "none"

C29_AcceptOnlyExact ==
  (PlainGuardCall /\ out = Ret(Bool(TRUE))) => Exact(pre, args[1])

\* C29 (amended). Every record accepted by isOk, isErr, isLoading,
\* isNotAsked or isRemoteResult without validators carries the tag the guard
\* asks for and the payload field of that tag, a value field when its type
\* is ok and an error field when its type is err; every such record is
\* accepted whatever other fields it carries: a loading-tagged record with
\* a value field and an ok-tagged record with an error field are accepted.
C29_GuardsAcceptTagged ==
  PlainGuardCall
    => LET v == args[1]
           accepted == out = Ret(Bool(TRUE))
       IN /\ out \in {Ret(Bool(TRUE)), Ret(Bool(FALSE))}
          /\ op = "isOk" => (accepted <=> TaggedWith(pre, v, "ok", "value"))
          /\ op = "isErr" => (accepted <=> TaggedWith(pre, v, "err", "error"))
          /\ op = "isLoading" => (accepted <=> TaggedWith(pre, v, "loading", "type"))
          /\ op = "isNotAsked"
               => (accepted <=> TaggedWith(pre, v, "not-asked", "type"))
          /\ op = "isRemoteResult" => (accepted <=> WellFormed(pre, v))
          /\ (v.k = "ref" /\ pre[v.n] = Obj({"type", "value", "error"}, Str("ok"),
                                            Num(1), Str("net")))
               => (accepted <=> op \in {"isOk", "isRemoteResult"})

C29_Witness ==
  /\ op = "isLoading"
  /\ args[1].k = "ref"
  /\ pre[args[1].n] = Obj({"type", "value"}, Str("loading"), Num(1), Undefined)
  /\ out = Ret(Bool(TRUE))

\* C26. No operation mutates its input: after a call of a guard, of mapOk,
\* mapErr, flatMapOk, flatMapErr, bimap, swap, mapRemote, of a matcher, of
\* equals, unwrap, unwrapOr or toPromise, every object that existed before
\* the call, the instances passed in among them, has the tag and the payload
\* fields it had before.
CombinatorOps ==
  {"mapOk", "mapErr", "flatMapOk", "flatMapErr", "bimap", "swap", "mapRemote"}

ReadOnlyOps ==
  GuardOps \cup {"isRemoteSuccess", "isRemoteFailure"} \cup CombinatorOps
    \cup {"match", "fold", "foldRemote", "equals", "unwrap", "unwrapOr",
          "getOrElse", "toPromise"}

C26_InputsUnchanged ==
  op \in ReadOnlyOps
    => /\ Len(heap) >= Len(pre)
       /\ \A a \in 1..Len(pre) : heap[a] = pre[a]

C26_Witness ==
  /\ op = "mapOk"
  /\ fn = "double"
  /\ IsConstructed(args[1])
  /\ pre[args[1].n] = OkObj(Num(1))
  /\ heap[args[1].n] = OkObj(Num(1))
  /\ out.val # args[1]
  /\ heap[out.val.n] = OkObj(Num(2))

\* C28. Well-formedness is closed under the algebra: every instance obtained
\* from Ok, Err, Loading, NotAsked, fromNullable, fromUndefined, fromNullish,
\* fromFalsy or tryCatchSync by a sequence of mapOk, mapErr, flatMapOk,
\* flatMapErr (the mappers returning built results), bimap, swap and
\* mapRemote that does not throw is accepted by isRemoteResult, satisfies
\* exactly one of the four guards, and has a value field only when tagged ok
\* and an error field only when tagged err.
C28_Closed ==
  /\ \A v \in Built :
       /\ IsTrue(isRemoteResult(heap, v, NoFn, NoFn))
       /\ Cardinality(GuardsOf(heap, v)) = 1
       /\ "value" \in heap[v.n].has <=> heap[v.n].type = Str("ok")
       /\ "error" \in heap[v.n].has <=> heap[v.n].type = Str("err")
  /\ (op \in CombinatorOps /\ IsConstructed(args[1]) /\ out.kind = "return")
       => out.val \in Built

C28_Witness ==
  /\ op = "swap"
  /\ IsConstructed(args[1])
  /\ pre[args[1].n] = ErrObj(Num(2))
  /\ out.val \in Built
  /\ heap[out.val.n] = OkObj(Num(2))

\* C30. Promise round trip: for every built Ok or Err r (payloads are not
\* thenables), the promise returned by tryCatch(() => toPromise(r)) is
\* pending until the continuation has run, is then fulfilled, never
\* rejected, with a new instance that has the tag and the payload of r,
\* and it is eventually fulfilled.
RoundTrip ==
  /\ op = "tryCatch"
  /\ fn = "toPromise"
  /\ IsConstructed(args[1])
  /\ Tag(pre, args[1]) \in {"ok", "err"}

\* The round trip has come back with an instance equal to r.
CameBack ==
  /\ out.kind = "fulfilled"
  /\ IsConstructed(out.val)
  /\ out.val # args[1]
  /\ heap[out.val.n] = pre[args[1].n]
  /\ DeepEqual(heap, out.val, pre, args[1])
  /\ heap[args[1].n] = pre[args[1].n]

C30_Settled ==
  RoundTrip
    => /\ task.st \in {"awaiting", "done"}
       /\ task.st = "awaiting" => out = Pending
       /\ task.st = "done" => CameBack

C30_RoundTrip ==
  /\ []C30_Settled
  /\ (RoundTrip /\ task.st = "awaiting") ~> (RoundTrip /\ CameBack)

C30_Witness ==
  /\ RoundTrip
  /\ pre[args[1].n] = ErrObj(Str("net"))
  /\ task.st = "done"
  /\ task.p = Rejected(Str("net"))
  /\ CameBack
  /\ heap[out.val.n] = ErrObj(Str("net"))

====
